---- MODULE Spec2Model ----
(***************************************************************************)
(* Model of patentdata/models/specification.py: the PatentDoc aggregate    *)
(* (text, counters, reading time, bag of words, printable codec), the      *)
(* Paragraph sentence cache and the Description constructor.               *)
(*                                                                         *)
(* Characters are integers (code points); a Python str is a sequence of    *)
(* code points.  An optional value is a sequence of length 0 (None / no    *)
(* value) or 1 (the value).                                                *)
(***************************************************************************)
EXTENDS Integers, Sequences, FiniteSets, TLC

VARIABLES
    heap,        \* Paragraph objects by identity: heap[id] = [text, sentences]
    description, \* PatentDoc.description: None or Some([units |-> <<ids>>, sized |-> BOOLEAN])
    claimset,    \* PatentDoc.claimset, an external collaborator: [text |-> str]
    op,          \* name of the last operation called
    arg,         \* its argument
    ret,         \* None when it raised (or nothing was called), Some(value) when it returned
    err,         \* "none" or the name of the exception it raised
    encoded,     \* None or Some(last result of string2printint)
    readings,    \* reading_time results so far, by reading_rate: None or Some(rational)
    splitCalls,  \* splitCalls[id]: number of sent_tokenize calls made for Paragraph id
    accesses,    \* accesses[id]: number of sentences / sentence_count reads of Paragraph id
    calls        \* the collaborator calls the last bag_of_words made

vars == <<heap, description, claimset, op, arg, ret, err, encoded, readings,
          splitCalls, accesses, calls>>

None == <<>>
Some(v) == <<v>>

\* ---------------------------------------------------------------- bounds
MaxParas == 1        \* paragraphs of a document's description
MaxCodecLen == 1     \* characters of the claim-set text in the codec runs
MaxCodesLen == 2     \* codes handed to printint2string by a caller
MaxPre == 1          \* Paragraph objects existing before a Description is built
MaxItems == 2        \* items of a list handed to Description(...)
MaxAccess == 3       \* reads of sentences / sentence_count in one run

\* ---------------------------------------------------------------- strings
Range(a, b) == [i \in 1..(b - a + 1) |-> a + i - 1]
Str(S, n) == UNION {[1..k -> S] : k \in 0..n}
SeqSet(s) == {s[i] : i \in 1..Len(s)}

RECURSIVE Join(_, _)
\* Python sep.join(parts)
Join(sep, parts) ==
    IF parts = <<>> THEN <<>>
    ELSE IF Len(parts) = 1 THEN parts[1]
    ELSE parts[1] \o sep \o Join(sep, Tail(parts))

\* ---------------------------------------------------------------- string module
digits == Range(48, 57)
ascii_lowercase == Range(97, 122)
ascii_uppercase == Range(65, 90)
punctuation == Range(33, 47) \o Range(58, 64) \o Range(91, 96) \o Range(123, 126)
whitespace == <<32, 9, 10, 13, 11, 12>>
printable == digits \o ascii_lowercase \o ascii_uppercase \o punctuation \o whitespace

\* string.printable[:-2]
Alphabet == SubSeq(printable, 1, Len(printable) - 2)

\* {c: i for i, c in enumerate(string.printable[:-2])}: a later index overwrites an earlier one
EncCharMap ==
    [c \in SeqSet(Alphabet) |->
        CHOOSE i \in 0..(Len(Alphabet) - 1) :
            /\ Alphabet[i + 1] = c
            /\ \A j \in 0..(Len(Alphabet) - 1) : Alphabet[j + 1] = c => j <= i]

\* {i: c for i, c in enumerate(string.printable[:-2])}
DecCharMap == [i \in 0..(Len(Alphabet) - 1) |-> Alphabet[i + 1]]

\* ---------------------------------------------------------------- codec
\* A wrong encoder: code points (as string2int does) instead of table indices.
String2PrintIntOrd(text) ==
    [err |-> "none",
     ret |-> Some([i \in 1..Len(text) |->
                IF text[i] \in DOMAIN EncCharMap THEN text[i] ELSE 32])]

\* A wrong encoder: no fallback for a character outside the table.
String2PrintIntStrict(text) ==
    IF \E i \in 1..Len(text) : text[i] \notin DOMAIN EncCharMap
    THEN [err |-> "KeyError", ret |-> None]
    ELSE [err |-> "none", ret |-> Some([i \in 1..Len(text) |-> EncCharMap[text[i]]])]

\* PatentDoc.string2printint on a document whose text is `text`
String2PrintInt(text) ==
    [err |-> "none",
     ret |-> Some([i \in 1..Len(text) |->
                IF text[i] \in DOMAIN EncCharMap
                THEN EncCharMap[text[i]]
                ELSE EncCharMap[32]])]

\* A wrong decoder: indexes the alphabet as a Python sequence, so that a
\* negative code counts from the end instead of failing.
PrintInt2StringIndexed(doc_as_ints) ==
    LET n == Len(Alphabet)
        ok(i) == i \in (0 - n)..(n - 1)
        at(i) == IF i < 0 THEN Alphabet[n + i + 1] ELSE Alphabet[i + 1]
    IN  IF \E k \in 1..Len(doc_as_ints) : ~ok(doc_as_ints[k])
        THEN [err |-> "IndexError", ret |-> None]
        ELSE [err |-> "none",
              ret |-> Some([k \in 1..Len(doc_as_ints) |-> at(doc_as_ints[k])])]

\* PatentDoc.printint2string: char_map[i] raises KeyError for a missing key,
\* and then nothing is returned
PrintInt2String(doc_as_ints) ==
    IF \E k \in 1..Len(doc_as_ints) : doc_as_ints[k] \notin DOMAIN DecCharMap
    THEN [err |-> "KeyError", ret |-> None]
    ELSE [err |-> "none",
          ret |-> Some(Join(<<>>, [k \in 1..Len(doc_as_ints) |->
                                      <<DecCharMap[doc_as_ints[k]]>>]))]

\* ---------------------------------------------------------------- collaborators
\* nltk.word_tokenize, on texts of letters, digits and white space: the
\* maximal runs of characters that are not white space, in order
RECURSIVE TokenRuns(_, _, _)
TokenRuns(text, cur, acc) ==
    IF text = <<>> THEN (IF cur = <<>> THEN acc ELSE Append(acc, cur))
    ELSE IF Head(text) \in SeqSet(whitespace)
         THEN TokenRuns(Tail(text), <<>>, IF cur = <<>> THEN acc ELSE Append(acc, cur))
         ELSE TokenRuns(Tail(text), Append(cur, Head(text)), acc)

word_tokenize(text) == TokenRuns(text, <<>>, <<>>)

\* nltk.sent_tokenize, on texts of letters, full stops and spaces: a sentence
\* ends at each full stop; white space between sentences is dropped
RECURSIVE SentRuns(_, _, _)
SentRuns(text, cur, acc) ==
    IF text = <<>> THEN (IF cur = <<>> THEN acc ELSE Append(acc, cur))
    ELSE IF Head(text) = 46
         THEN SentRuns(Tail(text), <<>>, Append(acc, Append(cur, 46)))
         ELSE IF cur = <<>> /\ Head(text) \in SeqSet(whitespace)
              THEN SentRuns(Tail(text), cur, acc)
              ELSE SentRuns(Tail(text), Append(cur, Head(text)), acc)

sent_tokenize(text) == SentRuns(text, <<>>, <<>>)

\* collections.Counter(items)
Counter(items) ==
    [k \in SeqSet(items) |-> Cardinality({i \in 1..Len(items) : items[i] = k})]

\* Counter.__add__: key-wise sum, keeping the positive counts
CounterAdd(a, b) ==
    LET cnt(c, k) == IF k \in DOMAIN c THEN c[k] ELSE 0
        keys == {k \in DOMAIN a \cup DOMAIN b : cnt(a, k) + cnt(b, k) > 0}
    IN  [k \in keys |-> cnt(a, k) + cnt(b, k)]

RECURSIVE SumCounters(_)
SumCounters(cs) ==
    IF cs = <<>> THEN Counter(<<>>) ELSE CounterAdd(Head(cs), SumCounters(Tail(cs)))

RECURSIVE Concat(_)
Concat(ss) == IF ss = <<>> THEN <<>> ELSE Head(ss) \o Concat(Tail(ss))

\* The stop-word and stemming services (stand-ins for the external library):
\* "a" is a stop word; the stem of a word of two or more letters ending in
\* "s" is the word without that "s".
StopWords == {<<97>>}
IsWord(tok) == \A i \in 1..Len(tok) : tok[i] \in SeqSet(ascii_lowercase \o ascii_uppercase)
StemWord(tok) ==
    IF Len(tok) > 1 /\ tok[Len(tok)] = 115 THEN SubSeq(tok, 1, Len(tok) - 1) ELSE tok

\* BaseTextBlock (basemodels.py), by its contract
BlockUnfilteredCounter(text) == Counter(word_tokenize(text))
BlockCharacterCounter(text) == Counter(text)
BlockBagOfWords(text, opts) ==
    LET t0 == word_tokenize(text)
        t1 == IF opts[1] THEN SelectSeq(t0, IsWord) ELSE t0
        NotStop(tok) == tok \notin StopWords
        t2 == IF opts[2] THEN SelectSeq(t1, NotStop) ELSE t1
    IN  IF opts[3] THEN [i \in 1..Len(t2) |-> StemWord(t2[i])] ELSE t2

\* BaseTextSet (basemodels.py), by its contract, over the units of a Description
UnitTexts(h, d) == [i \in 1..Len(d.units) |-> h[d.units[i]].text]
SetText(h, d) == Join(<<10>>, UnitTexts(h, d))
\* len(set) is the count of members, when BaseTextSet defines __len__
SetLen(d) == Len(d.units)
SetUnfilteredCounter(h, d) ==
    SumCounters([i \in 1..Len(d.units) |-> BlockUnfilteredCounter(h[d.units[i]].text)])
SetCharacterCounter(h, d) ==
    SumCounters([i \in 1..Len(d.units) |-> BlockCharacterCounter(h[d.units[i]].text)])
SetBagOfWords(h, d, opts) ==
    Concat([i \in 1..Len(d.units) |-> BlockBagOfWords(h[d.units[i]].text, opts)])

\* bool(self.description): None is false.  Description defines no __bool__
\* and its __getattr__ is not consulted for special methods, so the object is
\* true, unless its base class gives it a __len__ (d.sized) and it has no units
Truthy(d) == d # None /\ (d[1].sized => SetLen(d[1]) > 0)

\* ---------------------------------------------------------------- PatentDoc
\* A wrong text: without a description, the claim-set text alone.
PatentDocTextBare(h, d, c) ==
    IF Truthy(d) THEN Join(<<10, 10>>, <<SetText(h, d[1]), c.text>>) ELSE c.text

\* PatentDoc.text
PatentDocText(h, d, c) ==
    LET desc_text == IF Truthy(d) THEN SetText(h, d[1]) ELSE <<>>
    IN  Join(<<10, 10>>, <<desc_text, c.text>>)

\* PatentDoc.unfiltered_counter: an attribute of None raises AttributeError
PatentDocUnfilteredCounter(h, d, c) ==
    IF d = None
    THEN [err |-> "AttributeError", ret |-> None]
    ELSE [err |-> "none",
          ret |-> Some(CounterAdd(SetUnfilteredCounter(h, d[1]),
                                  BlockUnfilteredCounter(c.text)))]

\* PatentDoc.character_counter
PatentDocCharacterCounter(h, d, c) ==
    IF d = None
    THEN [err |-> "AttributeError", ret |-> None]
    ELSE [err |-> "none",
          ret |-> Some(CounterAdd(SetCharacterCounter(h, d[1]),
                                  BlockCharacterCounter(c.text)))]

\* A wrong estimate: the rate multiplies the token count.
ReadingTimeTimes(text, reading_rate) ==
    [num |-> Len(word_tokenize(text)) * reading_rate, den |-> 1]

\* PatentDoc.reading_time: the quotient len(tokens) / reading_rate, kept as
\* the exact fraction num/den
ReadingTime(text, reading_rate) ==
    [num |-> Len(word_tokenize(text)), den |-> reading_rate]

\* a/b < c/d for positive denominators
RatLess(x, y) == x.num * y.den < y.num * x.den

Perms(S) ==
    {s \in [1..Cardinality(S) -> S] : \A x \in S : \E i \in 1..Cardinality(S) : s[i] = x}

\* PatentDoc.bag_of_words: the possible outcomes; list(set(...)) fixes no
\* order, and self.description.bag_of_words on None raises AttributeError
BagOfWords(h, d, c, opts) ==
    IF d = None
    THEN {[err |-> "AttributeError", ret |-> None, calls |-> <<>>]}
    ELSE LET joined_bow == SetBagOfWords(h, d[1], opts) \o BlockBagOfWords(c.text, opts)
         IN  {[err |-> "none",
               ret |-> Some(remove_duplicates),
               calls |-> <<[on |-> "description", opts |-> opts],
                           [on |-> "claimset", opts |-> opts]>>]
              : remove_duplicates \in Perms(SeqSet(joined_bow))}

\* ---------------------------------------------------------------- Paragraph
\* Paragraph(text): a new object, its _sentences attribute not yet set
NewParagraph(text) == [cls |-> "Paragraph", text |-> text, sentences |-> None]

\* [Sentence(s) for s in sent_tokenize(self.text)], the list made by the
\* gen-th call of sent_tokenize for this paragraph
Segmented(text, gen) ==
    LET parts == sent_tokenize(text)
    IN  [gen |-> gen,
         items |-> [i \in 1..Len(parts) |-> [cls |-> "Sentence", text |-> parts[i]]]]

\* A wrong getter: segments on every access.
SentencesEager(h, sc, p) ==
    LET made == Segmented(h[p].text, sc[p] + 1)
    IN  [heap |-> [h EXCEPT ![p].sentences = Some(made)],
         splitCalls |-> [sc EXCEPT ![p] = sc[p] + 1],
         ret |-> made]

\* Paragraph.sentences: return self._sentences, or on AttributeError (the
\* attribute is not set) segment, store and return
Sentences(h, sc, p) ==
    IF h[p].sentences # None
    THEN [heap |-> h, splitCalls |-> sc, ret |-> h[p].sentences[1]]
    ELSE LET made == Segmented(h[p].text, sc[p] + 1)
         IN  [heap |-> [h EXCEPT ![p].sentences = Some(made)],
              splitCalls |-> [sc EXCEPT ![p] = sc[p] + 1],
              ret |-> made]

\* Paragraph.sentence_count
SentenceCount(h, sc, p) ==
    LET r == Sentences(h, sc, p)
    IN  [heap |-> r.heap, splitCalls |-> r.splitCalls, ret |-> Len(r.ret.items)]

\* The attributes a Paragraph instance answers to: those of the class
\* Paragraph, those of BaseTextBlock by its contract, and those set on the instance
ParagraphClassAttrs == {"sentences", "sentence_count"}
BaseTextBlockAttrs == {"text", "unfiltered_counter", "character_counter", "bag_of_words"}
ParagraphAttrs(h, p) ==
    ParagraphClassAttrs \cup BaseTextBlockAttrs
        \cup (IF h[p].sentences # None THEN {"_sentences"} ELSE {})

\* ---------------------------------------------------------------- Description
\* An argument of Description(...): one item, or a list of items; an item is
\* a str or an existing Paragraph (by identity)
StrItem(text) == [kind |-> "str", text |-> text, ref |-> 0]
ParaItem(id) == [kind |-> "para", text |-> <<>>, ref |-> id]
Single(item) == [shape |-> "single", item |-> <<item>>, items |-> <<>>]
List(items) == [shape |-> "list", item |-> <<>>, items |-> items]

\* lib.utils.check_list, by its contract: a list as it is, anything else as a
\* list of that one item
check_list(initial_input) ==
    IF initial_input.shape = "list" THEN initial_input.items ELSE initial_input.item

\* A wrong loop: wraps every item, a Paragraph included, in a new Paragraph.
RECURSIVE WrapAll(_, _, _)
WrapAll(h, input_list, para_list) ==
    IF input_list = <<>> THEN [heap |-> h, units |-> para_list]
    ELSE LET para == Head(input_list)
             text == IF para.kind = "para" THEN h[para.ref].text ELSE para.text
         IN  WrapAll(Append(h, NewParagraph(text)), Tail(input_list),
                     Append(para_list, Len(h) + 1))

\* The loop of Description.__init__ over input_list
RECURSIVE WrapParas(_, _, _)
WrapParas(h, input_list, para_list) ==
    IF input_list = <<>> THEN [heap |-> h, units |-> para_list]
    ELSE LET para == Head(input_list)
         IN  IF para.kind # "para"
             THEN WrapParas(Append(h, NewParagraph(para.text)), Tail(input_list),
                            Append(para_list, Len(h) + 1))
             ELSE WrapParas(h, Tail(input_list), Append(para_list, para.ref))

\* Description.__init__, and BaseTextSet.__init__ keeping para_list as units
DescriptionInit(h, initial_input) == WrapParas(h, check_list(initial_input), <<>>)

\* Description.paragraph_count
ParagraphCount(d) == Len(d.units)

\* Description.sentence_count: sum([p.sentence_count for p in self.units])
RECURSIVE SumSentenceCounts(_, _, _, _)
SumSentenceCounts(h, sc, units, total) ==
    IF units = <<>> THEN [heap |-> h, splitCalls |-> sc, ret |-> total]
    ELSE LET r == SentenceCount(h, sc, Head(units))
         IN  SumSentenceCounts(r.heap, r.splitCalls, Tail(units), total + r.ret)

\* Description.sentence_segment: paragraph.sentence_segment() for each unit;
\* looking up an attribute the paragraph does not have raises AttributeError
SentenceSegment(h, d) ==
    IF \E i \in 1..Len(d.units) : "sentence_segment" \notin ParagraphAttrs(h, d.units[i])
    THEN [err |-> "AttributeError", ret |-> None, heap |-> h]
    ELSE [err |-> "none", ret |-> Some(None), heap |-> h]

\* ---------------------------------------------------------------- inputs
\* texts of letters, digits and white space for the document runs:
\* "", " ", "a", "as", "a1", "as a"
TextSample ==
    {<<>>, <<32>>, <<97>>, <<97, 115>>, <<97, 49>>, <<97, 115, 32, 97>>}
\* paragraph texts for the segmentation runs: "a." and "a. s."
ParaSample == {<<97, 46>>, <<97, 46, 32, 115, 46>>}
\* every character of string.printable (the last two are outside the
\* alphabet), and three more outside it: NUL, DEL, e-acute
CodecChars == SeqSet(printable) \cup {0, 127, 233}
\* codes around the ends of the table, and a code point that is no code
CodeSample == {0 - Len(Alphabet), 0 - 1, 0, 1, Len(Alphabet) - 1, Len(Alphabet), 233}
\* claim-set texts for the decoder runs: "", "a", e-acute
DecodeDocs == {<<>>, <<97>>, <<233>>}
\* reading_rate: the default, and the upper rate of the comment
Rates == {100, 200}
Options == {<<a, b, c>> : a, b, c \in BOOLEAN}

RECURSIVE Sum(_)
Sum(s) == IF s = <<>> THEN 0 ELSE Head(s) + Sum(Tail(s))

Text == PatentDocText(heap, description, claimset)

\* ---------------------------------------------------------------- actions
Idle ==
    /\ op = "new" /\ arg = None /\ ret = None /\ err = "none"
    /\ encoded = None /\ calls = <<>>
    /\ readings = [r \in Rates |-> None]

Returned(o, a, r, e) == op' = o /\ arg' = a /\ ret' = r /\ err' = e

\* doc.text
TextCall ==
    /\ Returned("text", None, Some(PatentDocText(heap, description, claimset)), "none")
    /\ UNCHANGED <<heap, description, claimset, encoded, readings, splitCalls, accesses, calls>>

\* doc.unfiltered_counter
UnfilteredCounterCall ==
    /\ LET r == PatentDocUnfilteredCounter(heap, description, claimset)
       IN  Returned("unfiltered_counter", None, r.ret, r.err)
    /\ UNCHANGED <<heap, description, claimset, encoded, readings, splitCalls, accesses, calls>>

\* doc.character_counter
CharacterCounterCall ==
    /\ LET r == PatentDocCharacterCounter(heap, description, claimset)
       IN  Returned("character_counter", None, r.ret, r.err)
    /\ UNCHANGED <<heap, description, claimset, encoded, readings, splitCalls, accesses, calls>>

\* doc.reading_time(reading_rate)
ReadingTimeCall(reading_rate) ==
    /\ LET r == ReadingTime(PatentDocText(heap, description, claimset), reading_rate)
       IN  /\ Returned("reading_time", reading_rate, Some(r), "none")
           /\ readings' = [readings EXCEPT ![reading_rate] = Some(r)]
    /\ UNCHANGED <<heap, description, claimset, encoded, splitCalls, accesses, calls>>

\* doc.bag_of_words(clean_non_words, clean_stopwords, stem_words)
BagOfWordsCall(opts) ==
    /\ \E r \in BagOfWords(heap, description, claimset, opts) :
          /\ Returned("bag_of_words", opts, r.ret, r.err)
          /\ calls' = r.calls
    /\ UNCHANGED <<heap, description, claimset, encoded, readings, splitCalls, accesses>>

\* doc.string2printint()
String2PrintIntCall ==
    /\ LET r == String2PrintInt(PatentDocText(heap, description, claimset))
       IN  /\ Returned("string2printint", None, r.ret, r.err)
           /\ encoded' = r.ret
    /\ UNCHANGED <<heap, description, claimset, readings, splitCalls, accesses, calls>>

\* PatentDoc.printint2string(doc_as_ints)
PrintInt2StringCall(doc_as_ints) ==
    /\ LET r == PrintInt2String(doc_as_ints)
       IN  Returned("printint2string", doc_as_ints, r.ret, r.err)
    /\ UNCHANGED <<heap, description, claimset, encoded, readings, splitCalls, accesses, calls>>

\* Description(initial_input), once
NewDescription(initial_input) ==
    /\ description = None
    /\ LET r == DescriptionInit(heap, initial_input)
           fresh == [i \in 1..(Len(r.heap) - Len(heap)) |-> 0]
       IN  /\ heap' = r.heap
           /\ description' \in {Some([units |-> r.units, sized |-> z]) : z \in BOOLEAN}
           /\ splitCalls' = splitCalls \o fresh
           /\ accesses' = accesses \o fresh
    /\ Returned("Description", initial_input, Some(None), "none")
    /\ UNCHANGED <<claimset, encoded, readings, calls>>

\* paragraph.sentences
SentencesCall(p) ==
    /\ Sum(accesses) < MaxAccess
    /\ LET r == Sentences(heap, splitCalls, p)
       IN  /\ heap' = r.heap
           /\ splitCalls' = r.splitCalls
           /\ Returned("sentences", p, Some(r.ret), "none")
    /\ accesses' = [accesses EXCEPT ![p] = @ + 1]
    /\ UNCHANGED <<description, claimset, encoded, readings, calls>>

\* paragraph.sentence_count
SentenceCountCall(p) ==
    /\ Sum(accesses) < MaxAccess
    /\ LET r == SentenceCount(heap, splitCalls, p)
       IN  /\ heap' = r.heap
           /\ splitCalls' = r.splitCalls
           /\ Returned("sentence_count", p, Some(r.ret), "none")
    /\ accesses' = [accesses EXCEPT ![p] = @ + 1]
    /\ UNCHANGED <<description, claimset, encoded, readings, calls>>

\* description.sentence_count
DescriptionSentenceCountCall ==
    /\ description # None
    /\ Sum(accesses) < MaxAccess
    /\ LET units == description[1].units
           r == SumSentenceCounts(heap, splitCalls, units, 0)
       IN  /\ heap' = r.heap
           /\ splitCalls' = r.splitCalls
           /\ Returned("description.sentence_count", None, Some(r.ret), "none")
           /\ accesses' = [p \in DOMAIN accesses |->
                  accesses[p] + Cardinality({i \in 1..Len(units) : units[i] = p})]
    /\ UNCHANGED <<description, claimset, encoded, readings, calls>>

\* description.sentence_segment()
SentenceSegmentCall ==
    /\ description # None
    /\ LET r == SentenceSegment(heap, description[1])
       IN  /\ heap' = r.heap
           /\ Returned("sentence_segment", None, r.ret, r.err)
    /\ UNCHANGED <<description, claimset, encoded, readings, splitCalls, accesses, calls>>

\* description.paragraph_count
ParagraphCountCall ==
    /\ description # None
    /\ Returned("paragraph_count", None, Some(ParagraphCount(description[1])), "none")
    /\ UNCHANGED <<heap, description, claimset, encoded, readings, splitCalls, accesses, calls>>

\* ---------------------------------------------------------------- specifications
\* A PatentDoc over a description of up to MaxParas paragraphs (or none) and a claim set
InitDoc ==
    /\ Idle
    /\ \E absent, sized \in BOOLEAN, texts \in Str(TextSample, MaxParas) :
          LET r == DescriptionInit(<<>>, List([i \in 1..Len(texts) |-> StrItem(texts[i])]))
          IN  IF absent /\ texts = <<>>
              THEN /\ heap = <<>>
                   /\ description = None
              ELSE /\ heap = r.heap
                   /\ description = Some([units |-> r.units, sized |-> sized])
    /\ claimset \in {[text |-> t] : t \in TextSample}
    /\ splitCalls = [i \in 1..Len(heap) |-> 0]
    /\ accesses = [i \in 1..Len(heap) |-> 0]

NextDoc ==
    \/ TextCall
    \/ UnfilteredCounterCall
    \/ CharacterCounterCall
    \/ \E reading_rate \in Rates : ReadingTimeCall(reading_rate)
    \/ \E opts \in Options : BagOfWordsCall(opts)

SpecDoc == InitDoc /\ [][NextDoc]_vars

\* A PatentDoc without description, or with the one-paragraph description "a",
\* whose claim-set text is any string of up to MaxCodecLen characters
InitCodec ==
    /\ Idle
    /\ \E absent, sized \in BOOLEAN :
          LET r == DescriptionInit(<<>>, Single(StrItem(<<97>>)))
          IN  IF absent
              THEN /\ heap = <<>>
                   /\ description = None
              ELSE /\ heap = r.heap
                   /\ description = Some([units |-> r.units, sized |-> sized])
    /\ claimset \in {[text |-> t] : t \in Str(CodecChars, MaxCodecLen)}
    /\ splitCalls = [i \in 1..Len(heap) |-> 0]
    /\ accesses = [i \in 1..Len(heap) |-> 0]

\* The caller encodes the document and decodes what the encoder returned
NextCodec ==
    \/ String2PrintIntCall
    \/ encoded # None /\ PrintInt2StringCall(encoded[1])

SpecCodec == InitCodec /\ [][NextCodec]_vars

\* The caller also decodes sequences of codes of its own
InitDecode ==
    /\ Idle
    /\ heap = <<>> /\ description = None
    /\ claimset \in {[text |-> t] : t \in DecodeDocs}
    /\ splitCalls = <<>> /\ accesses = <<>>

NextDecode ==
    \/ String2PrintIntCall
    \/ encoded # None /\ PrintInt2StringCall(encoded[1])
    \/ \E doc_as_ints \in Str(CodeSample, MaxCodesLen) : PrintInt2StringCall(doc_as_ints)

SpecDecode == InitDecode /\ [][NextDecode]_vars

\* Up to MaxPre Paragraph objects, and no Description yet
InitPara ==
    /\ Idle
    /\ heap \in {[i \in 1..Len(ts) |-> NewParagraph(ts[i])] : ts \in Str(ParaSample, MaxPre)}
    /\ description = None
    /\ claimset = [text |-> <<>>]
    /\ splitCalls = [i \in 1..Len(heap) |-> 0]
    /\ accesses = [i \in 1..Len(heap) |-> 0]

Items == {StrItem(t) : t \in ParaSample} \cup {ParaItem(p) : p \in DOMAIN heap}

NextPara ==
    \/ \E item \in Items : NewDescription(Single(item))
    \/ \E items \in Str(Items, MaxItems) : NewDescription(List(items))
    \/ \E p \in DOMAIN heap : SentencesCall(p)
    \/ \E p \in DOMAIN heap : SentenceCountCall(p)
    \/ DescriptionSentenceCountCall
    \/ SentenceSegmentCall
    \/ ParagraphCountCall

SpecPara == InitPara /\ [][NextPara]_vars

\* ---------------------------------------------------------------- properties
AlphabetSet == SeqSet(Alphabet)
InAlphabet(text) == \A i \in 1..Len(text) : text[i] \in AlphabetSet
Units == description[1].units

\* C1: when every character of the document text is one of the 98 characters
\* of the alphabet, decoding what string2printint returned for the document
\* gives back exactly the document text.
RoundTripPrintable ==
    (op = "printint2string" /\ encoded # None /\ arg = encoded[1] /\ InAlphabet(Text))
        => (err = "none" /\ ret = Some(Text))

\* A round trip over a claim-set text that is a character of the alphabet has been made.
RoundTripMade ==
    /\ op = "printint2string" /\ encoded # None /\ arg = encoded[1]
    /\ Len(claimset.text) > 0 /\ InAlphabet(Text)
    /\ ret = Some(Text)

\* C2: string2printint never fails and returns one code per character of the
\* text, in order: a code in 0..97 that is the character's place in the
\* alphabet when the character is in the alphabet, and the place of the space
\* character otherwise.
EncodePrintableTotal ==
    op = "string2printint" =>
        /\ err = "none"
        /\ ret # None
        /\ Len(ret[1]) = Len(Text)
        /\ \A i \in 1..Len(Text) :
              /\ ret[1][i] \in 0..97
              /\ Alphabet[ret[1][i] + 1] = (IF Text[i] \in AlphabetSet THEN Text[i] ELSE 32)

\* A text with a character outside the alphabet has been encoded.
EncodedOutsideAlphabet ==
    /\ op = "string2printint" /\ err = "none"
    /\ \E i \in 1..Len(Text) : Text[i] \notin AlphabetSet /\ ret[1][i] = 94

\* C3: printint2string fails, returning nothing, exactly when some code of its
\* input is outside 0..97 (a negative code included), and returns a text
\* otherwise.
DecodeRejectsInvalid ==
    op = "printint2string" =>
        IF \E k \in 1..Len(arg) : arg[k] \notin 0..97
        THEN err # "none" /\ ret = None
        ELSE err = "none" /\ ret # None /\ Len(ret[1]) = Len(arg)

\* A sequence of a valid code followed by a negative code has been rejected.
DecodeRejectedNegative ==
    /\ op = "printint2string" /\ Len(arg) = 2
    /\ arg[1] \in 0..97 /\ arg[2] < 0
    /\ err = "KeyError" /\ ret = None

\* C4: text is the description text (empty when the description is absent),
\* then "\n\n", then the claim-set text, and the operation does not fail.
TextIsJoined ==
    op = "text" =>
        /\ err = "none"
        /\ ret = Some((IF description = None THEN <<>> ELSE SetText(heap, description[1]))
                        \o <<10, 10>> \o claimset.text)

\* The text of a document without description has been read.
TextReadWithoutDescription ==
    /\ op = "text" /\ description = None /\ claimset.text # <<>>
    /\ ret = Some(<<10, 10>> \o claimset.text)

\* C5: unfiltered_counter and character_counter do not fail; without a
\* description each is the claim set's counter, with one each is the key-wise
\* sum of the description's and the claim set's counters.
CountersTreatAbsentAsEmpty ==
    /\ op = "unfiltered_counter" =>
          /\ err = "none"
          /\ ret = Some(IF description = None
                        THEN BlockUnfilteredCounter(claimset.text)
                        ELSE CounterAdd(SetUnfilteredCounter(heap, description[1]),
                                        BlockUnfilteredCounter(claimset.text)))
    /\ op = "character_counter" =>
          /\ err = "none"
          /\ ret = Some(IF description = None
                        THEN BlockCharacterCounter(claimset.text)
                        ELSE CounterAdd(SetCharacterCounter(heap, description[1]),
                                        BlockCharacterCounter(claimset.text)))

\* C6: sent_tokenize is called at most once for a paragraph; a paragraph that
\* has been read has its cache set by that one call; a step never resets or
\* replaces a set cache; and a read returns the cached list.
SegmentedAtMostOnce ==
    [][/\ \A p \in DOMAIN heap' :
            /\ splitCalls'[p] <= 1
            /\ accesses'[p] >= 1 =>
                  /\ splitCalls'[p] = 1
                  /\ heap'[p].sentences # None
                  /\ heap'[p].sentences[1].gen = 1
       /\ \A p \in DOMAIN heap :
            heap[p].sentences # None => heap'[p].sentences = heap[p].sentences
       /\ op' = "sentences" => ret' = heap'[arg'].sentences
       /\ op' = "sentence_count" => ret' = Some(Len(heap'[arg'].sentences[1].items))
      ]_vars

\* A paragraph of two sentences has been read three times.
ReadAgain ==
    \E p \in DOMAIN heap :
        /\ accesses[p] >= 3 /\ splitCalls[p] = 1
        /\ op = "sentence_count" /\ arg = p /\ ret = Some(2)

\* C7: sentence_segment() completes without error, returns nothing, and
\* leaves the sentence cache of every paragraph of the description set.
SegmentWarmsEveryParagraph ==
    op = "sentence_segment" =>
        /\ err = "none"
        /\ ret = Some(None)
        /\ \A i \in 1..Len(Units) : heap[Units[i]].sentences # None

\* C8: Description(...) keeps one Paragraph per input item, in input order
\* (one for a single str or Paragraph): an input Paragraph is the same object,
\* untouched, and a str is a new Paragraph holding that text; paragraph_count
\* is the number of members.
DescriptionWrapsItems ==
    [][/\ op' = "Description" =>
            LET n == IF arg'.shape = "list" THEN Len(arg'.items) ELSE 1
                item(i) == IF arg'.shape = "list" THEN arg'.items[i] ELSE arg'.item[1]
                units == description'[1].units
            IN  /\ err' = "none"
                /\ Len(units) = n
                /\ \A i \in 1..n :
                      /\ units[i] \in DOMAIN heap'
                      /\ heap'[units[i]].cls = "Paragraph"
                      /\ item(i).kind = "para" =>
                            /\ units[i] = item(i).ref
                            /\ heap'[units[i]] = heap[units[i]]
                      /\ item(i).kind = "str" =>
                            /\ units[i] \notin DOMAIN heap
                            /\ heap'[units[i]].text = item(i).text
                            /\ \A j \in 1..n : j # i => units[j] # units[i]
                /\ \A p \in DOMAIN heap : heap'[p] = heap[p]
       /\ description # None => description' = description
       /\ op' = "paragraph_count" => ret' = Some(Len(description'[1].units))
      ]_vars

\* A Description has been built from a list of an existing Paragraph and a str.
BuiltFromMixedList ==
    /\ op = "Description" /\ arg.shape = "list" /\ Len(arg.items) = 2
    /\ arg.items[1].kind = "para" /\ arg.items[2].kind = "str"
    /\ Units = <<arg.items[1].ref, Len(heap)>>
    /\ heap[Len(heap)].text = arg.items[2].text

\* C9 as stated: for every document, reading_time(200) < reading_time(100).
ReadingTimeStrictlyLess ==
    (readings[100] # None /\ readings[200] # None)
        => RatLess(readings[200][1], readings[100][1])

\* C9 amended: reading_time(200) < reading_time(100) when the text has at
\* least one token, and both are 0 when it has none.
ReadingTimeLessUnlessEmpty ==
    (readings[100] # None /\ readings[200] # None) =>
        /\ readings[100][1].den = 100 /\ readings[200][1].den = 200
        /\ readings[100][1].num = readings[200][1].num
        /\ IF Len(word_tokenize(Text)) > 0
           THEN RatLess(readings[200][1], readings[100][1])
           ELSE readings[200][1].num = 0 /\ readings[100][1].num = 0

\* Both estimates have been taken for a document with tokens.
BothReadingTimesTaken ==
    /\ readings[100] # None /\ readings[200] # None
    /\ Len(word_tokenize(Text)) > 1

\* C10: bag_of_words does not fail; it hands its three options unchanged to
\* the description (when there is one) and to the claim set, and what it
\* returns has no token twice and has exactly the tokens of the description's
\* bag of words (none for an absent description) and the claim set's.
BagOfWordsIsUnion ==
    op = "bag_of_words" =>
        /\ err = "none"
        /\ calls = (IF description = None THEN <<>>
                    ELSE <<[on |-> "description", opts |-> arg]>>)
                   \o <<[on |-> "claimset", opts |-> arg]>>
        /\ \A i, j \in 1..Len(ret[1]) : ret[1][i] = ret[1][j] => i = j
        /\ SeqSet(ret[1]) =
              (IF description = None THEN {}
               ELSE SeqSet(SetBagOfWords(heap, description[1], arg)))
              \cup SeqSet(BlockBagOfWords(claimset.text, arg))
====
